---- MODULE Spec2Model ----
(***************************************************************************)
(* Model of the gvm version store and activation engine.                   *)
(*                                                                         *)
(* The state is the part of the ~/.gvm tree the commands read and write:   *)
(* version/<name> directories, the version/active marker, the alias/<name> *)
(* links, cache/<v>/go-build, package/<v>/bin, environment/go.env, the     *)
(* archive/<package> downloads and the two catalog files under cache/.     *)
(* Every command is a process that advances one filesystem call at a time, *)
(* so that commands of two processes can interleave between calls.         *)
(* Strings the code inspects (version names, the marker) are sequences of  *)
(* one-character strings.                                                  *)
(***************************************************************************)
EXTENDS Integers, Sequences, FiniteSets, TLC

(***************************************************************************)
(* Bounds and input sets                                                   *)
(***************************************************************************)
\* files in a release archive (all under the archive's top-level "go/")
NFiles == 2
\* I/O failures the environment injects in one behaviour
MaxFaults == 1

Files == 1..NFiles
Procs == {1, 2}

GO == <<"g", "o">>
V1 == <<"g", "o", "1", ".", "9">>
V2 == <<"g", "o", "1", ".", "1", "0">>
\* what the release catalog offers, as the list update caches
Catalog == {V1, V2}
CatalogFile == <<V1, V2>>
\* version arguments given on the command line: with the prefix, without it,
\* and the bare prefix
RawVersions == {V1, V2, <<"1", ".", "9">>, GO}
\* alias names given on the command line: the reserved name, a free name, and
\* the two keywords of the alias command
AliasNames == {"default", "foo", "list", "ls"}

\* absent file / directory entry, absent Option value, a non-symlink entry
NoFile == <<"<absent>">>
NoDir == <<>>
NoTag == <<>>
None == <<"<none>">>
NotRead == <<"<unread>">>
RegularFile == <<"<file>">>

(***************************************************************************)
(* Pure helpers                                                            *)
(***************************************************************************)
\* str::starts_with("go")
StartsWithGo(s) == Len(s) >= 2 /\ SubSeq(s, 1, 2) = GO

\* mutant: the prefix is added without looking at the string
get_real_version_Prepend(version) == GO \o version

get_real_version(version) ==
    IF StartsWithGo(version) THEN version ELSE GO \o version

(***************************************************************************)
(* Version strings: parsing, ordering, stability (utils.rs)                *)
(***************************************************************************)
Less == "Less"
Equal == "Equal"
Greater == "Greater"

DigitChars == <<"0", "1", "2", "3", "4", "5", "6", "7", "8", "9">>

IsDigit(c) == \E i \in 1..10 : DigitChars[i] = c

DigitValue(c) == (CHOOSE i \in 1..10 : DigitChars[i] = c) - 1

\* the byte of each character the model uses (str::cmp compares bytes)
Byte ==
    [c \in {"*", "-", ".", "0", "1", "2", "3", "4", "5", "6", "7", "8", "9",
            "a", "b", "c", "d", "e", "g", "h", "l", "o", "p", "r", "t", "v",
            "x"} |->
        CASE c = "*" -> 42 [] c = "-" -> 45 [] c = "." -> 46
          [] c = "a" -> 97 [] c = "b" -> 98 [] c = "c" -> 99
          [] c = "d" -> 100 [] c = "e" -> 101 [] c = "g" -> 103
          [] c = "h" -> 104 [] c = "l" -> 108 [] c = "o" -> 111
          [] c = "p" -> 112 [] c = "r" -> 114 [] c = "t" -> 116
          [] c = "v" -> 118 [] c = "x" -> 120
          [] OTHER -> 48 + DigitValue(c)]

\* the tail of s from position i on
Tail_From(s, i) == SubSeq(s, i, Len(s))

\* str::starts_with(prefix)
StartsWith(s, prefix) ==
    Len(s) >= Len(prefix) /\ SubSeq(s, 1, Len(prefix)) = prefix

\* str::contains(pat)
Contains(s, pat) ==
    \E i \in 1..(Len(s) - Len(pat) + 1) : SubSeq(s, i, i + Len(pat) - 1) = pat

\* str::strip_prefix("go").unwrap_or(version)
StripGo(version) ==
    IF StartsWithGo(version) THEN Tail_From(version, 3) ELSE version

\* the first position at or after i that does not hold a digit: \d+ is greedy
RECURSIVE DigitsEnd(_, _)
DigitsEnd(s, i) ==
    IF i <= Len(s) /\ IsDigit(s[i]) THEN DigitsEnd(s, i + 1) ELSE i

\* the end of (?:\.\d+)* started at position i: each repetition needs a dot
\* followed by at least one digit
RECURSIVE GroupsEnd(_, _)
GroupsEnd(s, i) ==
    IF i + 1 <= Len(s) /\ s[i] = "." /\ IsDigit(s[i + 1])
    THEN GroupsEnd(s, DigitsEnd(s, i + 1))
    ELSE i

\* str::split('.')
RECURSIVE SplitDots(_)
SplitDots(s) ==
    IF \E i \in 1..Len(s) : s[i] = "."
    THEN LET i == CHOOSE k \in 1..Len(s) :
                      s[k] = "." /\ \A j \in 1..(k - 1) : s[j] # "."
         IN  <<SubSeq(s, 1, i - 1)>> \o SplitDots(Tail_From(s, i + 1))
    ELSE <<s>>

RECURSIVE DecimalValue(_)
DecimalValue(s) ==
    IF s = <<>> THEN 0
    ELSE 10 * DecimalValue(SubSeq(s, 1, Len(s) - 1)) + DigitValue(s[Len(s)])

CmpNat(x, y) == IF x < y THEN Less ELSE IF x > y THEN Greater ELSE Equal

\* String::cmp: lexicographic by bytes
RECURSIVE CmpStr(_, _)
CmpStr(a, b) ==
    IF a = <<>> /\ b = <<>> THEN Equal
    ELSE IF a = <<>> THEN Less
    ELSE IF b = <<>> THEN Greater
    ELSE IF Head(a) # Head(b) THEN CmpNat(Byte[Head(a)], Byte[Head(b)])
    ELSE CmpStr(Tail(a), Tail(b))

\* s without its leading zeros
RECURSIVE StripZeros(_)
StripZeros(s) ==
    IF s # <<>> /\ Head(s) = "0" THEN StripZeros(Tail(s)) ELSE s

\* u32::MAX in decimal
U32MaxDigits == <<"4", "2", "9", "4", "9", "6", "7", "2", "9", "5">>

\* the digits of s denote a number that fits 32 bits
FitsU32(s) ==
    LET t == StripZeros(s)
    IN  \/ Len(t) < Len(U32MaxDigits)
        \/ Len(t) = Len(U32MaxDigits) /\ CmpStr(t, U32MaxDigits) # Greater

\* str::parse::<u32>().ok(): no value for an empty string, a non-digit or a
\* number that does not fit 32 bits
ParseU32(s) ==
    IF s # <<>> /\ (\A i \in 1..Len(s) : IsDigit(s[i])) /\ FitsU32(s)
    THEN <<DecimalValue(s)>>
    ELSE <<>>

\* filter_map(..).collect()
RECURSIVE FilterMapU32(_)
FilterMapU32(parts) ==
    IF parts = <<>> THEN <<>>
    ELSE ParseU32(Head(parts)) \o FilterMapU32(Tail(parts))

\* ^go(\d+(?:\.\d+)*)(.*)$ : <<base parts, suffix>>, and <<<<>>, <<>>>> when
\* the expression does not match
parse_version_parts(version) ==
    IF StartsWithGo(version) /\ Len(version) >= 3 /\ IsDigit(version[3])
    THEN LET end == GroupsEnd(version, DigitsEnd(version, 3))
         IN  <<FilterMapU32(SplitDots(SubSeq(version, 3, end - 1))),
               Tail_From(version, end)>>
    ELSE <<<<>>, <<>>>>

\* Vec<u32>::cmp: lexicographic, a proper prefix is less
RECURSIVE CmpVec(_, _)
CmpVec(a, b) ==
    IF a = <<>> /\ b = <<>> THEN Equal
    ELSE IF a = <<>> THEN Less
    ELSE IF b = <<>> THEN Greater
    ELSE IF Head(a) # Head(b) THEN CmpNat(Head(a), Head(b))
    ELSE CmpVec(Tail(a), Tail(b))

\* mutant: the strings are compared as they are
cmp_versions_Lexical(a, b) == CmpStr(a, b)

\* mutant: of two suffixed versions with one base the first is less
cmp_versions_SuffixedLess(a, b) ==
    LET pa == parse_version_parts(a)
        pb == parse_version_parts(b)
    IN  IF CmpVec(pa[1], pb[1]) = Equal
        THEN CASE pa[2] # <<>> /\ pb[2] = <<>> -> Less
               [] pa[2] = <<>> /\ pb[2] # <<>> -> Greater
               [] pa[2] = <<>> /\ pb[2] = <<>> -> Equal
               [] OTHER -> Less
        ELSE CmpVec(pa[1], pb[1])

cmp_versions(a, b) ==
    LET pa == parse_version_parts(a)
        pb == parse_version_parts(b)
    IN  IF CmpVec(pa[1], pb[1]) = Equal
        THEN CASE pa[2] # <<>> /\ pb[2] = <<>> -> Less
               [] pa[2] = <<>> /\ pb[2] # <<>> -> Greater
               [] pa[2] = <<>> /\ pb[2] = <<>> -> Equal
               [] OTHER -> CmpStr(pa[2], pb[2])
        ELSE CmpVec(pa[1], pb[1])

is_stable_version(version) ==
    LET trimmed == StripGo(version)
    IN  ~(\/ Contains(trimmed, <<"r", "c">>)
          \/ Contains(trimmed, <<"b", "e", "t", "a">>)
          \/ Contains(trimmed, <<"a", "l", "p", "h", "a">>))

\* slice::sort_by(|a, b| cmp_versions(..)): a stable sort of the positions of
\* keys, so a position goes after every position whose key does not compare
\* greater than its own
RECURSIVE InsertSorted(_, _, _)
InsertSorted(sorted, i, keys) ==
    IF sorted = <<>> THEN <<i>>
    ELSE IF cmp_versions(keys[sorted[Len(sorted)]], keys[i]) = Greater
    THEN Append(InsertSorted(SubSeq(sorted, 1, Len(sorted) - 1), i, keys),
                sorted[Len(sorted)])
    ELSE Append(sorted, i)

RECURSIVE SortedPositions(_, _)
SortedPositions(n, keys) ==
    IF n = 0 THEN <<>>
    ELSE InsertSorted(SortedPositions(n - 1, keys), n, keys)

\* releases sorted by the version string keys[i] of each releases[i]
sort_by(releases, keys) ==
    LET order == SortedPositions(Len(releases), keys)
    IN  [i \in 1..Len(releases) |-> releases[order[i]]]

\* str::ends_with('*')
EndsWithStar(f) == f # <<>> /\ f[Len(f)] = "*"

\* the closure of Vec::retain in list and in list_cached_versions, for the
\* version string r of an entry
Retained(r, version_filter, stable) ==
    IF stable /\ ~is_stable_version(r) THEN FALSE
    ELSE IF version_filter # None
    THEN IF EndsWithStar(version_filter)
         THEN StartsWith(r, SubSeq(version_filter, 1, Len(version_filter) - 1))
         ELSE r = version_filter
    ELSE TRUE

\* version.map(|f| if f.starts_with("go") { f } else { format!("go{}", f) })
MapFilter(version) ==
    IF version = None THEN None
    ELSE IF StartsWithGo(version) THEN version ELSE GO \o version

\* list.rs 21-45: what list prints, from the installed names it has read
list_releases(releases, version, stable) ==
    LET version_filter == MapFilter(version)
        Keep(r) == Retained(r, version_filter, stable)
        kept == SelectSeq(releases, Keep)
    IN  sort_by(kept, kept)

\* mutant: a filter ending with * is matched exactly too
list_cached_versions_ExactOnly(releases, version_filter, stable_only) ==
    LET filter == MapFilter(version_filter)
        Keep(r) == (stable_only => is_stable_version(r.version))
                   /\ (filter # None => r.version = filter)
        kept == SelectSeq(releases, Keep)
    IN  sort_by(kept, [i \in 1..Len(kept) |-> kept[i].version])

\* utils.rs 359-387: the FilteredRelease records list-remote prints, from
\* the records deserialized from cache/releases.json
list_cached_versions(releases, version_filter, stable_only) ==
    LET filter == MapFilter(version_filter)
        Keep(r) == Retained(r.version, filter, stable_only)
        kept == SelectSeq(releases, Keep)
    IN  sort_by(kept, [i \in 1..Len(kept) |-> kept[i].version])

\* names that can occur under version/: the real versions of all inputs,
\* which include the archive's top-level directory "go"
DirNames == {get_real_version(r) : r \in RawVersions}

EmptyDir == [f \in Files |-> NoTag]

VARIABLES
    versionDir,   \* version/<name>: NoDir or [Files -> <<archive, writer>> or NoTag]
    activeFile,   \* version/active: NoFile or its bytes
    aliasDir,     \* alias/<name>: NoFile, RegularFile, or the link's target name
    cacheDir,     \* names v with cache/<v>/go-build
    packageDir,   \* names v with package/<v>/bin
    envFile,      \* environment/go.env: NoFile or its key/value lines
    archiveDir,   \* versions whose downloaded archive is under archive/
    releaseJson,  \* cache/release.json: NoFile or the versions it lists
    releasesJson, \* cache/releases.json: NoFile or the versions it lists
    pc,           \* per process: position in its command
    cmd,          \* per process: the command line it runs
    loc,          \* per process: local variables of the running command
    result,       \* per process: how its last command ended
    pre,          \* per process: the filesystem when its command started
    faults,       \* I/O failures injected so far
    activated     \* some activation has completed successfully

fsVars == <<versionDir, activeFile, aliasDir, cacheDir, packageDir, envFile,
            archiveDir, releaseJson, releasesJson>>
vars == <<versionDir, activeFile, aliasDir, cacheDir, packageDir, envFile,
          archiveDir, releaseJson, releasesJson, pc, cmd, loc, result, pre,
          faults, activated>>

\* the filesystem as one value
FS == [versionDir |-> versionDir, activeFile |-> activeFile,
       aliasDir |-> aliasDir, cacheDir |-> cacheDir,
       packageDir |-> packageDir, envFile |-> envFile,
       archiveDir |-> archiveDir, releaseJson |-> releaseJson,
       releasesJson |-> releasesJson]

\* outcome of one fallible filesystem or network call: TRUE = it succeeds
IoOutcomes == IF faults < MaxFaults THEN {TRUE, FALSE} ELSE {TRUE}

\* locals of a command: the real version it works on, the link name handed to
\* the symlink helpers, the archive entry unpack is at, the last value it got
\* from get_active_version, and whether install passed its existence check
Loc0 == [real |-> None, link |-> "", idx |-> 0, seen |-> NotRead,
         checked |-> FALSE]
NoCmd == [op |-> "none"]

(***************************************************************************)
(* Store reads                                                             *)
(***************************************************************************)
\* mutant: every name is reported, whether its directory exists or not
list_installed_versions_AllNames == DirNames

\* read_dir(version/) keeping the entries that are directories
list_installed_versions == {d \in DirNames : versionDir[d] # NoDir}

\* mutant: the links are followed, so one whose target is gone is not listed
list_aliases_Resolved ==
    {a \in AliasNames : aliasDir[a] \in DirNames /\ versionDir[aliasDir[a]] # NoDir}

\* read_dir(alias/): every entry, whatever its type
list_aliases == {a \in AliasNames : aliasDir[a] # NoFile}

\* read_to_string(version/active), kept when it starts with "go"
get_active_version ==
    IF activeFile # NoFile /\ StartsWithGo(activeFile) THEN activeFile ELSE None

\* mutant: the marker is compared with the name without its "go" prefix
is_version_active_Unprefixed(version) ==
    get_active_version # None
        /\ get_active_version = SubSeq(version, 3, Len(version))

is_version_active(version) ==
    get_active_version # None /\ get_active_version = version

\* mutant: the path is taken to exist without looking
LinkExists_Always(name) == TRUE

\* Path::exists on alias/<name>: follows the link
LinkExists(name) ==
    /\ aliasDir[name] # NoFile
    /\ aliasDir[name] # RegularFile => versionDir[aliasDir[name]] # NoDir

\* mutant: the existence check looks under archive/ instead of version/
version_already_installed_InArchive(version) == version \in archiveDir

\* install.rs version_already_installed: Path::exists on version/<version>
version_already_installed(version) ==
    version \in DirNames /\ versionDir[version] # NoDir

(***************************************************************************)
(* Process bookkeeping                                                     *)
(***************************************************************************)
\* the command ends (Ok(()) returned to main, or error!/Err: exit status 1)
Finish(p, r) ==
    /\ pc' = [pc EXCEPT ![p] = "done"]
    /\ result' = [result EXCEPT ![p] = r]
    /\ UNCHANGED loc

Goto(p, label) ==
    /\ pc' = [pc EXCEPT ![p] = label]
    /\ UNCHANGED result

\* a fallible call that changes nothing on failure
Fault(p, r) ==
    /\ faults' = faults + 1
    /\ Finish(p, r)

\* main.rs: one invocation of the binary; invocations do not overlap
Begin(p, c, label) ==
    /\ pc[p] = "idle"
    /\ \A q \in Procs \ {p} : pc[q] \in {"idle", "off"}
    /\ cmd' = [cmd EXCEPT ![p] = c]
    /\ pre' = [pre EXCEPT ![p] = FS]
    /\ pc' = [pc EXCEPT ![p] = label]
    /\ result' = [result EXCEPT ![p] = "running"]
    /\ loc' = [loc EXCEPT ![p] = Loc0]
    /\ UNCHANGED <<fsVars, faults, activated>>

\* the process has exited and the shell is back at its prompt
Exit(p) ==
    /\ pc[p] = "done"
    /\ pc' = [pc EXCEPT ![p] = "idle"]
    /\ cmd' = [cmd EXCEPT ![p] = NoCmd]
    /\ result' = [result EXCEPT ![p] = "none"]
    /\ pre' = [pre EXCEPT ![p] = <<>>]
    /\ loc' = [loc EXCEPT ![p] = Loc0]
    /\ UNCHANGED <<fsVars, faults, activated>>

(***************************************************************************)
(* install <version> [--use]            (cli/install.rs)                   *)
(***************************************************************************)
InstallBegin(p) ==
    \E v \in RawVersions, u \in BOOLEAN :
        Begin(p, [version |-> v, op |-> "install", use |-> u], "i_catalog")

\* read cache/release.json and look the version up in it
InstallReadCatalog(p) ==
    /\ pc[p] = "i_catalog"
    /\ LET version_filter == get_real_version(cmd[p].version)
           releases == IF releaseJson = NoFile THEN <<>>
                       ELSE SelectSeq(releaseJson, LAMBDA r : r = version_filter)
       IN  IF releaseJson = NoFile
           THEN Finish(p, "catalog_unreadable")
           ELSE IF Len(releases) = 0 \/ Len(releases) > 1
           THEN Finish(p, "not_in_catalog")
           ELSE /\ pc' = [pc EXCEPT ![p] = "i_installed"]
                /\ loc' = [loc EXCEPT ![p].real = version_filter]
                /\ UNCHANGED result
    /\ UNCHANGED <<fsVars, cmd, pre, faults, activated>>

InstallCheckInstalled(p) ==
    /\ pc[p] = "i_installed"
    /\ IF version_already_installed(loc[p].real)
       THEN Finish(p, "already_installed")
       ELSE /\ pc' = [pc EXCEPT ![p] = "i_download"]
            /\ loc' = [loc EXCEPT ![p].checked = TRUE]
            /\ UNCHANGED result
    /\ UNCHANGED <<fsVars, cmd, pre, faults, activated>>

\* download_release: fetch the archive and write it to archive/<package>
InstallDownload(p) ==
    /\ pc[p] = "i_download"
    /\ \E ok \in IoOutcomes :
        IF ok
        THEN /\ archiveDir' = archiveDir \cup {loc[p].real}
             /\ Goto(p, "i_open")
             /\ UNCHANGED <<loc, faults>>
        ELSE /\ Fault(p, "download_failed")
             /\ UNCHANGED archiveDir
    /\ UNCHANGED <<versionDir, activeFile, aliasDir, cacheDir, packageDir,
                   envFile, releaseJson, releasesJson, cmd, pre, activated>>

\* extract_package: fs::File::open(&archive_file)?
InstallOpenArchive(p) ==
    /\ pc[p] = "i_open"
    /\ IF loc[p].real \in archiveDir
       THEN /\ pc' = [pc EXCEPT ![p] = "i_unpack"]
            /\ loc' = [loc EXCEPT ![p].idx = 1]
            /\ UNCHANGED result
       ELSE Finish(p, "extract_failed")
    /\ UNCHANGED <<fsVars, cmd, pre, faults, activated>>

\* the directory version/go after file f of the archive of v is unpacked by p:
\* unpack creates go/ when it is missing and replaces a file that is there
UnpackedFile(dir, f, v, p) ==
    [(IF dir = NoDir THEN EmptyDir ELSE dir) EXCEPT ![f] = <<v, p>>]

\* package_archive.unpack(&install_path): one archive entry per step; the
\* decoder or the disk can fail before any entry
InstallUnpack(p) ==
    /\ pc[p] = "i_unpack"
    /\ IF loc[p].idx > NFiles
       THEN /\ Goto(p, "i_rename")
            /\ UNCHANGED <<versionDir, loc, faults>>
       ELSE \E ok \in IoOutcomes :
            IF ok
            THEN /\ versionDir' = [versionDir EXCEPT
                        ![GO] = UnpackedFile(@, loc[p].idx, loc[p].real, p)]
                 /\ pc' = pc
                 /\ loc' = [loc EXCEPT ![p].idx = @ + 1]
                 /\ UNCHANGED <<result, faults>>
            ELSE /\ Fault(p, "extract_failed")
                 /\ UNCHANGED versionDir
    /\ UNCHANGED <<activeFile, aliasDir, cacheDir, packageDir, envFile,
                   archiveDir, releaseJson, releasesJson, cmd, pre, activated>>

IsEmptyDir(dir) == \A f \in Files : dir[f] = NoTag

\* rename(2) of directory from onto to succeeds when from exists and to is
\* missing or an empty directory
RenameAllowed(dirs, from, to) ==
    /\ dirs[from] # NoDir
    /\ dirs[to] = NoDir \/ IsEmptyDir(dirs[to])

\* fs::rename(version/go, version/<version>)
InstallRename(p) ==
    /\ pc[p] = "i_rename"
    /\ IF RenameAllowed(versionDir, GO, loc[p].real)
       THEN /\ versionDir' = [versionDir EXCEPT ![loc[p].real] = versionDir[GO],
                                                ![GO] = NoDir]
            /\ Goto(p, "i_cleanup")
            /\ UNCHANGED loc
       ELSE /\ Finish(p, "rename_failed")
            /\ UNCHANGED versionDir
    /\ UNCHANGED <<activeFile, aliasDir, cacheDir, packageDir, envFile,
                   archiveDir, releaseJson, releasesJson, cmd, pre, faults,
                   activated>>

\* mutant: a failed cleanup takes the renamed release away again
InstallCleanup_Rollback(p) ==
    /\ pc[p] = "i_cleanup"
    /\ \E ok \in IoOutcomes :
        IF ok /\ loc[p].real \in archiveDir
        THEN /\ archiveDir' = archiveDir \ {loc[p].real}
             /\ IF cmd[p].use
                THEN Goto(p, "a_isdir") /\ UNCHANGED loc
                ELSE Finish(p, "ok")
             /\ UNCHANGED <<versionDir, faults>>
        ELSE /\ Finish(p, "cleanup_failed")
             /\ faults' = IF ok THEN faults ELSE faults + 1
             /\ versionDir' = [versionDir EXCEPT ![loc[p].real] = NoDir]
             /\ UNCHANGED archiveDir
    /\ UNCHANGED <<activeFile, aliasDir, cacheDir, packageDir,
                   envFile, releaseJson, releasesJson, cmd, pre, activated>>

\* fs::remove_file(&archive_file), then install's tail: activate when --use
InstallCleanup(p) ==
    /\ pc[p] = "i_cleanup"
    /\ \E ok \in IoOutcomes :
        IF ok /\ loc[p].real \in archiveDir
        THEN /\ archiveDir' = archiveDir \ {loc[p].real}
             /\ IF cmd[p].use
                THEN Goto(p, "a_isdir") /\ UNCHANGED loc
                ELSE Finish(p, "ok")
             /\ UNCHANGED faults
        ELSE /\ Finish(p, "cleanup_failed")
             /\ faults' = IF ok THEN faults ELSE faults + 1
             /\ UNCHANGED archiveDir
    /\ UNCHANGED <<versionDir, activeFile, aliasDir, cacheDir, packageDir,
                   envFile, releaseJson, releasesJson, cmd, pre, activated>>

(***************************************************************************)
(* remove_existing_symlink / create_symlink          (utils.rs 409-465)    *)
(* loc.link is the link name under alias/, loc.real the target's name.     *)
(***************************************************************************)
\* where the caller goes on when remove_existing_symlink returned Ok(())
AfterRemoveSymlink(p) ==
    IF cmd[p].op = "remove" THEN Goto(p, "r_rmdir") /\ UNCHANGED loc
    ELSE IF cmd[p].op = "remove_alias" THEN Finish(p, "ok")
    ELSE Goto(p, "s_symlink") /\ UNCHANGED loc

\* if link.exists() { ... }
SymlinkExists(p) ==
    /\ pc[p] = "s_exists"
    /\ IF LinkExists(loc[p].link)
       THEN Goto(p, "s_remove") /\ UNCHANGED loc
       ELSE AfterRemoveSymlink(p)
    /\ UNCHANGED <<fsVars, cmd, pre, faults, activated>>

\* mutant: the whole alias directory is emptied, not the one link
SymlinkRemove_AllAliases(p) ==
    /\ pc[p] = "s_remove"
    /\ LET link == loc[p].link IN
       IF aliasDir[link] = NoFile
       THEN Finish(p, "symlink_remove_failed") /\ UNCHANGED <<aliasDir, faults>>
       ELSE /\ aliasDir' = [a \in AliasNames |-> NoFile]
            /\ AfterRemoveSymlink(p)
            /\ UNCHANGED faults
    /\ UNCHANGED <<versionDir, activeFile, cacheDir, packageDir, envFile,
                   archiveDir, releaseJson, releasesJson, cmd, pre, activated>>

\* symlink_metadata(link)?; if it is a symlink, remove_file(link)?
SymlinkRemove(p) ==
    /\ pc[p] = "s_remove"
    /\ LET link == loc[p].link IN
       IF aliasDir[link] = NoFile
       THEN Finish(p, "symlink_remove_failed") /\ UNCHANGED <<aliasDir, faults>>
       ELSE IF aliasDir[link] = RegularFile
       THEN AfterRemoveSymlink(p) /\ UNCHANGED <<aliasDir, faults>>
       ELSE \E ok \in IoOutcomes :
            IF ok
            THEN /\ aliasDir' = [aliasDir EXCEPT ![link] = NoFile]
                 /\ AfterRemoveSymlink(p)
                 /\ UNCHANGED faults
            ELSE Fault(p, "symlink_remove_failed") /\ UNCHANGED aliasDir
    /\ UNCHANGED <<versionDir, activeFile, cacheDir, packageDir, envFile,
                   archiveDir, releaseJson, releasesJson, cmd, pre, activated>>

\* unix_fs::symlink(original, link): fails when the name is taken
SymlinkCreate(p) ==
    /\ pc[p] = "s_symlink"
    /\ LET link == loc[p].link IN
       IF aliasDir[link] # NoFile
       THEN Finish(p, "symlink_failed") /\ UNCHANGED <<aliasDir, faults>>
       ELSE \E ok \in IoOutcomes :
            IF ok
            THEN /\ aliasDir' = [aliasDir EXCEPT ![link] = loc[p].real]
                 /\ IF cmd[p].op = "alias"
                    THEN Finish(p, "ok")
                    ELSE Goto(p, "a_cache") /\ UNCHANGED loc
                 /\ UNCHANGED faults
            ELSE Fault(p, "symlink_failed") /\ UNCHANGED aliasDir
    /\ UNCHANGED <<versionDir, activeFile, cacheDir, packageDir, envFile,
                   archiveDir, releaseJson, releasesJson, cmd, pre, activated>>

(***************************************************************************)
(* activate_version                                  (utils.rs 490-560)    *)
(***************************************************************************)
\* if !release_dir.is_dir() { error!(...) }
ActivateCheckDir(p) ==
    /\ pc[p] = "a_isdir"
    /\ LET real_version == get_real_version(loc[p].real) IN
       IF versionDir[real_version] = NoDir
       THEN Finish(p, "not_found")
       ELSE /\ pc' = [pc EXCEPT ![p] = "a_open"]
            /\ loc' = [loc EXCEPT ![p].real = real_version]
            /\ UNCHANGED result
    /\ UNCHANGED <<fsVars, cmd, pre, faults, activated>>

\* async_fs::write(active_path, ..): the file is opened with truncation ...
ActivateOpenMarker(p) ==
    /\ pc[p] = "a_open"
    /\ \E ok \in IoOutcomes :
        IF ok
        THEN /\ activeFile' = <<>>
             /\ Goto(p, "a_write")
             /\ UNCHANGED <<loc, faults>>
        ELSE Fault(p, "marker_failed") /\ UNCHANGED activeFile
    /\ UNCHANGED <<versionDir, aliasDir, cacheDir, packageDir, envFile,
                   archiveDir, releaseJson, releasesJson, cmd, pre, activated>>

\* bytes of a file after buf is written at offset 0 over old
WriteAt0(old, buf) ==
    buf \o (IF Len(old) > Len(buf) THEN SubSeq(old, Len(buf) + 1, Len(old))
            ELSE <<>>)

\* mutant: the marker is left as the truncation made it
ActivateWriteMarker_Skip(p) ==
    /\ pc[p] = "a_write"
    /\ pc' = [pc EXCEPT ![p] = "s_exists"]
    /\ loc' = [loc EXCEPT ![p].link = "default"]
    /\ UNCHANGED <<fsVars, cmd, pre, result, faults, activated>>

\* ... and then written from offset 0
ActivateWriteMarker(p) ==
    /\ pc[p] = "a_write"
    /\ \E ok \in IoOutcomes :
        IF ok
        THEN /\ activeFile' = WriteAt0(IF activeFile = NoFile THEN <<>>
                                       ELSE activeFile, loc[p].real)
             /\ pc' = [pc EXCEPT ![p] = "s_exists"]
             /\ loc' = [loc EXCEPT ![p].link = "default"]
             /\ UNCHANGED <<result, faults>>
        ELSE Fault(p, "marker_failed") /\ UNCHANGED activeFile
    /\ UNCHANGED <<versionDir, aliasDir, cacheDir, packageDir, envFile,
                   archiveDir, releaseJson, releasesJson, cmd, pre, activated>>

\* create_dir_all(cache/<version>/go-build)
ActivateCacheDir(p) ==
    /\ pc[p] = "a_cache"
    /\ \E ok \in IoOutcomes :
        IF ok
        THEN /\ cacheDir' = cacheDir \cup {loc[p].real}
             /\ Goto(p, "a_package")
             /\ UNCHANGED <<loc, faults>>
        ELSE Fault(p, "cache_dir_failed") /\ UNCHANGED cacheDir
    /\ UNCHANGED <<versionDir, activeFile, aliasDir, packageDir, envFile,
                   archiveDir, releaseJson, releasesJson, cmd, pre, activated>>

\* create_dir_all(package/<version>/bin)
ActivatePackageDir(p) ==
    /\ pc[p] = "a_package"
    /\ \E ok \in IoOutcomes :
        IF ok
        THEN /\ packageDir' = packageDir \cup {loc[p].real}
             /\ Goto(p, "e_open")
             /\ UNCHANGED <<loc, faults>>
        ELSE Fault(p, "package_dir_failed") /\ UNCHANGED packageDir
    /\ UNCHANGED <<versionDir, activeFile, aliasDir, cacheDir, envFile,
                   archiveDir, releaseJson, releasesJson, cmd, pre, activated>>

(***************************************************************************)
(* init_go_environment(Some(version))                (utils.rs 583-642)    *)
(***************************************************************************)
GoEnvPath == <<"environment", <<"g", "o", ".", "e", "n", "v">>>>

\* mutant: the build cache path is not derived from the version
EnvContent_SharedCache(active_version) ==
    << <<"GOROOT", <<"version", active_version>>>>,
       <<"GOCACHE", <<"cache", GO>>>>,
       <<"GOPATH", <<"package", active_version>>>>,
       <<"GOENV", GoEnvPath>> >>

\* the key=value lines, in the order they are pushed
EnvContent(active_version) ==
    << <<"GOROOT", <<"version", active_version>>>>,
       <<"GOCACHE", <<"cache", active_version>>>>,
       <<"GOPATH", <<"package", active_version>>>>,
       <<"GOENV", GoEnvPath>> >>

\* async_fs::write(&environment_file_path, env_content): open with truncation
EnvOpen(p) ==
    /\ pc[p] = "e_open"
    /\ \E ok \in IoOutcomes :
        IF ok
        THEN /\ envFile' = <<>>
             /\ Goto(p, "e_write")
             /\ UNCHANGED <<loc, faults>>
        ELSE Fault(p, "env_failed") /\ UNCHANGED envFile
    /\ UNCHANGED <<versionDir, activeFile, aliasDir, cacheDir, packageDir,
                   archiveDir, releaseJson, releasesJson, cmd, pre, activated>>

\* the write itself; activate_version then returns Ok(())
EnvWrite(p) ==
    /\ pc[p] = "e_write"
    /\ \E ok \in IoOutcomes :
        IF ok
        THEN /\ envFile' = WriteAt0(IF envFile = NoFile THEN <<>> ELSE envFile,
                                    EnvContent(loc[p].real))
             /\ activated' = TRUE
             /\ Finish(p, "ok")
             /\ UNCHANGED faults
        ELSE Fault(p, "env_failed") /\ UNCHANGED <<envFile, activated>>
    /\ UNCHANGED <<versionDir, activeFile, aliasDir, cacheDir, packageDir,
                   archiveDir, releaseJson, releasesJson, cmd, pre>>

(***************************************************************************)
(* use <version>                        (cli/use_version.rs)               *)
(***************************************************************************)
UseBegin(p) ==
    \E v \in RawVersions : Begin(p, [version |-> v, op |-> "use"], "u_installed")

UseCheckInstalled(p) ==
    /\ pc[p] = "u_installed"
    /\ LET real_version == get_real_version(cmd[p].version) IN
       IF real_version \notin list_installed_versions
       THEN Finish(p, "not_installed")
       ELSE /\ pc' = [pc EXCEPT ![p] = "u_active"]
            /\ loc' = [loc EXCEPT ![p].real = real_version]
            /\ UNCHANGED result
    /\ UNCHANGED <<fsVars, cmd, pre, faults, activated>>

UseCheckActive(p) ==
    /\ pc[p] = "u_active"
    /\ IF is_version_active(loc[p].real)
       THEN Finish(p, "ok")
       ELSE /\ pc' = [pc EXCEPT ![p] = "a_isdir"]
            /\ loc' = [loc EXCEPT ![p].seen = get_active_version]
            /\ UNCHANGED result
    /\ UNCHANGED <<fsVars, cmd, pre, faults, activated>>

(***************************************************************************)
(* remove <version>                     (cli/remove.rs)                    *)
(***************************************************************************)
RemoveBegin(p) ==
    \E v \in RawVersions : Begin(p, [version |-> v, op |-> "remove"], "r_installed")

RemoveCheckInstalled(p) ==
    /\ pc[p] = "r_installed"
    /\ LET real_version == get_real_version(cmd[p].version) IN
       IF real_version \notin list_installed_versions
       THEN Finish(p, "not_installed")
       ELSE /\ pc' = [pc EXCEPT ![p] = "r_active"]
            /\ loc' = [loc EXCEPT ![p].real = real_version]
            /\ UNCHANGED result
    /\ UNCHANGED <<fsVars, cmd, pre, faults, activated>>

\* the active check, then remove_existing_symlink(alias/default) is entered
RemoveCheckActive(p) ==
    /\ pc[p] = "r_active"
    /\ IF is_version_active(loc[p].real)
       THEN Finish(p, "currently_active")
       ELSE /\ pc' = [pc EXCEPT ![p] = "s_exists"]
            /\ loc' = [loc EXCEPT ![p].link = "default",
                                  ![p].seen = get_active_version]
            /\ UNCHANGED result
    /\ UNCHANGED <<fsVars, cmd, pre, faults, activated>>

\* the least file still in the directory
FirstFile(dir) == CHOOSE f \in Files :
    dir[f] # NoTag /\ \A g \in Files : dir[g] # NoTag => f <= g

\* fs::remove_dir_all(version/<version>): the files one by one, then the
\* directory itself
RemoveDirAll(p) ==
    /\ pc[p] = "r_rmdir"
    /\ LET dir == versionDir[loc[p].real] IN
       IF dir = NoDir
       THEN Finish(p, "remove_failed") /\ UNCHANGED <<versionDir, faults>>
       ELSE \E ok \in IoOutcomes :
            IF ~ok
            THEN Fault(p, "remove_failed") /\ UNCHANGED versionDir
            ELSE IF IsEmptyDir(dir)
            THEN /\ versionDir' = [versionDir EXCEPT ![loc[p].real] = NoDir]
                 /\ Finish(p, "ok")
                 /\ UNCHANGED faults
            ELSE /\ versionDir' = [versionDir EXCEPT
                        ![loc[p].real][FirstFile(dir)] = NoTag]
                 /\ UNCHANGED <<pc, loc, result, faults>>
    /\ UNCHANGED <<activeFile, aliasDir, cacheDir, packageDir, envFile,
                   archiveDir, releaseJson, releasesJson, cmd, pre, activated>>

(***************************************************************************)
(* alias <name> [<target>]              (cli/alias.rs)                     *)
(***************************************************************************)
\* an absent target is None
AliasTargets == RawVersions \cup {None}

AliasBegin(p) ==
    \E a \in AliasNames, t \in AliasTargets :
        Begin(p, [op |-> "alias", alias |-> a, target |-> t], "al_reserved")

AliasCheckReserved(p) ==
    /\ pc[p] = "al_reserved"
    /\ IF cmd[p].alias = "default"
       THEN Finish(p, "reserved")
       ELSE Goto(p, "al_list") /\ UNCHANGED loc
    /\ UNCHANGED <<fsVars, cmd, pre, faults, activated>>

\* mutant: only the short keyword is recognised
IsListKeyword_OnlyLs(alias) == alias = "ls"

\* if alias == "list" || alias == "ls"
IsListKeyword(alias) == alias = "list" \/ alias = "ls"

\* the listing: fs::read_link on every entry of alias/, which fails on an
\* entry that is not a symlink; nothing is written
AliasList(p) ==
    /\ pc[p] = "al_list"
    /\ IF IsListKeyword(cmd[p].alias)
       THEN IF \E a \in list_aliases : aliasDir[a] = RegularFile
            THEN Finish(p, "read_link_failed")
            ELSE Finish(p, "ok")
       ELSE Goto(p, "al_exists") /\ UNCHANGED loc
    /\ UNCHANGED <<fsVars, cmd, pre, faults, activated>>

AliasCheckExists(p) ==
    /\ pc[p] = "al_exists"
    /\ IF cmd[p].alias \in list_aliases
       THEN Finish(p, "alias_exists")
       ELSE Goto(p, "al_installed") /\ UNCHANGED loc
    /\ UNCHANGED <<fsVars, cmd, pre, faults, activated>>

\* target.unwrap_or_default()
UnwrapOrDefault(t) == IF t = None THEN <<>> ELSE t

\* mutant: the link is created without looking the target up
AliasCheckInstalled_NoCheck(p) ==
    /\ pc[p] = "al_installed"
    /\ pc' = [pc EXCEPT ![p] = "s_exists"]
    /\ loc' = [loc EXCEPT
                  ![p].real = get_real_version(UnwrapOrDefault(cmd[p].target)),
                  ![p].link = cmd[p].alias]
    /\ UNCHANGED <<fsVars, cmd, pre, result, faults, activated>>

AliasCheckInstalled(p) ==
    /\ pc[p] = "al_installed"
    /\ LET release_version == get_real_version(UnwrapOrDefault(cmd[p].target)) IN
       IF release_version \notin list_installed_versions
       THEN Finish(p, "not_installed")
       ELSE /\ pc' = [pc EXCEPT ![p] = "s_exists"]
            /\ loc' = [loc EXCEPT ![p].real = release_version,
                                  ![p].link = cmd[p].alias]
            /\ UNCHANGED result
    /\ UNCHANGED <<fsVars, cmd, pre, faults, activated>>

(***************************************************************************)
(* remove-alias <name>                  (cli/remove_alias.rs)              *)
(***************************************************************************)
RemoveAliasBegin(p) ==
    \E a \in AliasNames : Begin(p, [op |-> "remove_alias", alias |-> a], "ra_reserved")

RemoveAliasCheckReserved(p) ==
    /\ pc[p] = "ra_reserved"
    /\ IF cmd[p].alias = "default"
       THEN Finish(p, "reserved")
       ELSE Goto(p, "ra_exists") /\ UNCHANGED loc
    /\ UNCHANGED <<fsVars, cmd, pre, faults, activated>>

\* mutant: a name that is not an alias is an error
RemoveAliasCheckExists_Strict(p) ==
    /\ pc[p] = "ra_exists"
    /\ IF cmd[p].alias \notin list_aliases
       THEN Finish(p, "not_found")
       ELSE /\ pc' = [pc EXCEPT ![p] = "s_exists"]
            /\ loc' = [loc EXCEPT ![p].link = cmd[p].alias]
            /\ UNCHANGED result
    /\ UNCHANGED <<fsVars, cmd, pre, faults, activated>>

RemoveAliasCheckExists(p) ==
    /\ pc[p] = "ra_exists"
    /\ IF cmd[p].alias \notin list_aliases
       THEN Finish(p, "ok")
       ELSE /\ pc' = [pc EXCEPT ![p] = "s_exists"]
            /\ loc' = [loc EXCEPT ![p].link = cmd[p].alias]
            /\ UNCHANGED result
    /\ UNCHANGED <<fsVars, cmd, pre, faults, activated>>

(***************************************************************************)
(* update                               (cli/update.rs)                    *)
(***************************************************************************)
UpdateBegin(p) == Begin(p, [op |-> "update"], "up_fetch")

\* create_release_cache: fetch the releases, write cache/releases.json
UpdateWriteCache(p) ==
    /\ pc[p] = "up_fetch"
    /\ \E ok \in IoOutcomes :
        IF ok
        THEN /\ releasesJson' = CatalogFile
             /\ Finish(p, "ok")
             /\ UNCHANGED faults
        ELSE Fault(p, "update_failed") /\ UNCHANGED releasesJson
    /\ UNCHANGED <<versionDir, activeFile, aliasDir, cacheDir, packageDir,
                   envFile, archiveDir, releaseJson, cmd, pre, activated>>

(***************************************************************************)
(* list                                 (cli/list.rs)                      *)
(***************************************************************************)
ListBegin(p) == Begin(p, [op |-> "list"], "l_list")

\* the releases to print
ListInstalled(p) ==
    /\ pc[p] = "l_list"
    /\ pc' = [pc EXCEPT ![p] = "l_print"]
    /\ loc' = [loc EXCEPT ![p].idx = Cardinality(list_installed_versions)]
    /\ UNCHANGED <<fsVars, cmd, pre, result, faults, activated>>

\* for each release: is_version_active(&release), which reads the marker
ListPrint(p) ==
    /\ pc[p] = "l_print"
    /\ IF loc[p].idx = 0
       THEN Finish(p, "ok")
       ELSE /\ loc' = [loc EXCEPT ![p].idx = @ - 1,
                                  ![p].seen = get_active_version]
            /\ UNCHANGED <<pc, result>>
    /\ UNCHANGED <<fsVars, cmd, pre, faults, activated>>

(***************************************************************************)
(* Specification: commands run one at a time                               *)
(***************************************************************************)
\* the ~/.gvm tree that init creates, with or without a cache/release.json
EmptyStore(catalog) ==
    /\ versionDir = [d \in DirNames |-> NoDir]
    /\ activeFile = NoFile
    /\ aliasDir = [a \in AliasNames |-> NoFile]
    /\ cacheDir = {}
    /\ packageDir = {}
    /\ envFile = NoFile
    /\ archiveDir = {}
    /\ releaseJson = catalog
    /\ releasesJson = NoFile

Init ==
    /\ \E c \in {NoFile, CatalogFile} : EmptyStore(c)
    /\ pc = [p \in Procs |-> IF p = 1 THEN "idle" ELSE "off"]
    /\ cmd = [p \in Procs |-> NoCmd]
    /\ loc = [p \in Procs |-> Loc0]
    /\ result = [p \in Procs |-> "none"]
    /\ pre = [p \in Procs |-> <<>>]
    /\ faults = 0
    /\ activated = FALSE

Step(p) ==
    \/ InstallReadCatalog(p)
    \/ InstallCheckInstalled(p)
    \/ InstallDownload(p)
    \/ InstallOpenArchive(p)
    \/ InstallUnpack(p)
    \/ InstallRename(p)
    \/ InstallCleanup(p)
    \/ SymlinkExists(p)
    \/ SymlinkRemove(p)
    \/ SymlinkCreate(p)
    \/ ActivateCheckDir(p)
    \/ ActivateOpenMarker(p)
    \/ ActivateWriteMarker(p)
    \/ ActivateCacheDir(p)
    \/ ActivatePackageDir(p)
    \/ EnvOpen(p)
    \/ EnvWrite(p)
    \/ UseCheckInstalled(p)
    \/ UseCheckActive(p)
    \/ RemoveCheckInstalled(p)
    \/ RemoveCheckActive(p)
    \/ RemoveDirAll(p)
    \/ AliasCheckReserved(p)
    \/ AliasList(p)
    \/ AliasCheckExists(p)
    \/ AliasCheckInstalled(p)
    \/ RemoveAliasCheckReserved(p)
    \/ RemoveAliasCheckExists(p)

BeginCommand(p) ==
    \/ InstallBegin(p)
    \/ UseBegin(p)
    \/ RemoveBegin(p)
    \/ AliasBegin(p)
    \/ RemoveAliasBegin(p)

Next == \E p \in Procs : BeginCommand(p) \/ Step(p) \/ Exit(p)

Spec == Init /\ [][Next]_vars

(***************************************************************************)
(* Specifications: two invocations at the same time                        *)
(***************************************************************************)
\* a directory holding the whole archive of v, unpacked by an earlier process
FullDir(v) == [f \in Files |-> <<v, 0>>]

\* the store after both catalog versions were installed and `active` (a
\* version, or None) was activated
InstalledStore(active) ==
    /\ versionDir = [d \in DirNames |-> IF d \in Catalog THEN FullDir(d) ELSE NoDir]
    /\ activeFile = (IF active = None THEN NoFile ELSE active)
    /\ aliasDir = [a \in AliasNames |->
                      IF a = "default" /\ active # None THEN active ELSE NoFile]
    /\ cacheDir = (IF active = None THEN {} ELSE {active})
    /\ packageDir = (IF active = None THEN {} ELSE {active})
    /\ envFile = (IF active = None THEN NoFile ELSE EnvContent(active))
    /\ archiveDir = {}
    /\ releaseJson = CatalogFile
    /\ releasesJson = NoFile

\* both processes are past main's dispatch, at the first step of c1 and c2
Running(c1, l1, c2, l2) ==
    /\ pc = [p \in Procs |-> IF p = 1 THEN l1 ELSE l2]
    /\ cmd = [p \in Procs |-> IF p = 1 THEN c1 ELSE c2]
    /\ loc = [p \in Procs |-> Loc0]
    /\ result = [p \in Procs |-> "running"]
    /\ pre = [p \in Procs |-> FS]
    /\ faults = 0
    /\ activated = FALSE

ActivateStep(p) ==
    \/ ActivateCheckDir(p)
    \/ ActivateOpenMarker(p)
    \/ ActivateWriteMarker(p)
    \/ SymlinkExists(p)
    \/ SymlinkRemove(p)
    \/ SymlinkCreate(p)
    \/ ActivateCacheDir(p)
    \/ ActivatePackageDir(p)
    \/ EnvOpen(p)
    \/ EnvWrite(p)

\* `use w` over the active version v, while `list` reads the marker
InitReader ==
    \E v \in Catalog : \E w \in Catalog \ {v} :
        /\ InstalledStore(v)
        /\ Running([version |-> w, op |-> "use"], "u_installed",
                   [op |-> "list"], "l_list")

NextReader ==
    \E p \in Procs :
        \/ UseCheckInstalled(p)
        \/ UseCheckActive(p)
        \/ ActivateStep(p)
        \/ ListInstalled(p)
        \/ ListPrint(p)

SpecReader == InitReader /\ [][NextReader]_vars

\* two `install v` for the same version that is not installed
InitInstallRace ==
    \E v \in Catalog :
        /\ EmptyStore(CatalogFile)
        /\ Running([version |-> v, op |-> "install", use |-> FALSE], "i_catalog",
                   [version |-> v, op |-> "install", use |-> FALSE], "i_catalog")

NextInstallRace ==
    \E p \in Procs :
        \/ InstallReadCatalog(p)
        \/ InstallCheckInstalled(p)
        \/ InstallDownload(p)
        \/ InstallOpenArchive(p)
        \/ InstallUnpack(p)
        \/ InstallRename(p)
        \/ InstallCleanup(p)

SpecInstallRace == InitInstallRace /\ [][NextInstallRace]_vars

\* `use v` and `use w` for two installed versions, none of them active
InitActivateRace ==
    \E v \in Catalog : \E w \in Catalog \ {v} :
        /\ InstalledStore(None)
        /\ Running([version |-> v, op |-> "use"], "u_installed",
                   [version |-> w, op |-> "use"], "u_installed")

NextActivateRace ==
    \E p \in Procs :
        \/ UseCheckInstalled(p)
        \/ UseCheckActive(p)
        \/ ActivateStep(p)

SpecActivateRace == InitActivateRace /\ [][NextActivateRace]_vars

(***************************************************************************)
(* Specification: the version functions applied to bounded inputs          *)
(***************************************************************************)
MaxParts == 2
MaxEntries == 3

PartValues == {9, 10}

RC1 == <<"r", "c", "1">>
BETA2 == <<"b", "e", "t", "a", "2">>
DEV == <<"-", "d", "e", "v">>
Suffixes == {<<>>, RC1, BETA2}

RECURSIVE ToDigits(_)
ToDigits(n) ==
    IF n < 10 THEN <<DigitChars[n + 1]>>
    ELSE Append(ToDigits(n \div 10), DigitChars[(n % 10) + 1])

RECURSIVE JoinDots(_)
JoinDots(base) ==
    IF Len(base) = 1 THEN ToDigits(base[1])
    ELSE ToDigits(base[1]) \o <<".">> \o JoinDots(Tail(base))

\* the canonical string of a version: prefix, dotted base, suffix
Ver(base, suffix) == GO \o JoinDots(base) \o suffix

Bases == UNION {[1..n -> PartValues] : n \in 1..MaxParts}

\* strings without a numeric base after the prefix, or without the prefix
Unparseable == {GO, <<"g", "o", "x">>, <<"9", ".", "1", "0">>}

\* the versions without a suffix
PlainVersions == {Ver(b, <<>>) : b \in Bases}

VersionPool == {Ver(b, s) : b \in Bases, s \in Suffixes} \cup Unparseable

\* names under version/ or in the catalog
ListPool ==
    {Ver(<<1, 21, 0>>, <<>>), Ver(<<1, 21, 5>>, <<>>), Ver(<<1, 22, 0>>, <<>>),
     Ver(<<1, 23, 0>>, <<>>), Ver(<<1, 24>>, RC1), Ver(<<1, 24, 0>>, <<>>),
     Ver(<<1, 24>>, DEV), GO}

\* version arguments as typed: with the prefix and without it
RawPool == VersionPool \cup {StripGo(v) : v \in VersionPool}

\* versions with a pre-release suffix, with another suffix, with none
StablePool ==
    VersionPool \cup {Ver(b, DEV) : b \in Bases} \cup ListPool
        \cup {Ver(<<1, 24>>, BETA2)}

\* the version argument of list and list-remote
Filters ==
    {None,
     <<"1", ".", "2", "1", ".", "*">>,
     <<"g", "o", "1", ".", "2", "1", ".", "*">>,
     <<"g", "o", "1", ".", "2", "2", ".", "0">>,
     <<"1", ".", "2", "4", "r", "c", "1">>,
     <<"1", ".", "2", "*">>,
     <<"*">>,
     <<"1", ".", "2", "5">>}

\* directory listings and catalogs: distinct names in any order
EntrySeqs ==
    UNION {{e \in [1..n -> ListPool] :
               \A i \in 1..n : \A j \in 1..n : i # j => e[i] # e[j]} :
           n \in 0..MaxEntries}

\* FilteredRelease { version, url }
Released(e) ==
    [i \in 1..Len(e) |-> [version |-> e[i], url |-> <<"url", e[i]>>]]

VersionsOf(releases) == [i \in 1..Len(releases) |-> releases[i].version]

Apply(p, op, out) ==
    /\ pc[p] = "apply"
    /\ cmd[p].op = op
    /\ pc' = [pc EXCEPT ![p] = "done"]
    /\ result' = [result EXCEPT ![p] = out]
    /\ UNCHANGED <<fsVars, cmd, loc, pre, faults, activated>>

\* cmp_versions on every pair of the three arguments
CmpVersions(p) ==
    Apply(p, "cmp_versions",
          [ij \in (1..3) \X (1..3) |->
              cmp_versions(cmd[p].args[ij[1]], cmd[p].args[ij[2]])])

SortBy(p) == Apply(p, "sort_by", sort_by(cmd[p].args, cmd[p].args))

GetRealVersion(p) ==
    Apply(p, "get_real_version", get_real_version(cmd[p].args))

IsStableVersion(p) ==
    Apply(p, "is_stable_version", is_stable_version(cmd[p].args))

\* list over the names args[1] that list_installed_versions returned
ListReleases(p) ==
    Apply(p, "list",
          list_releases(cmd[p].args[1], cmd[p].args[2], cmd[p].args[3]))

\* list_remote over the records args[1] of cache/releases.json
ListRemote(p) ==
    Apply(p, "list_remote",
          VersionsOf(list_cached_versions(cmd[p].args[1], cmd[p].args[2],
                                          cmd[p].args[3])))

Call(c) ==
    /\ EmptyStore(CatalogFile)
    /\ pc = [p \in Procs |-> IF p = 1 THEN "apply" ELSE "off"]
    /\ cmd = [p \in Procs |-> IF p = 1 THEN c ELSE NoCmd]
    /\ loc = [p \in Procs |-> Loc0]
    /\ result = [p \in Procs |-> "none"]
    /\ pre = [p \in Procs |-> <<>>]
    /\ faults = 0
    /\ activated = FALSE

InitVersions ==
    \/ \E a \in VersionPool, b \in VersionPool, c \in VersionPool :
           Call([op |-> "cmp_versions", args |-> <<a, b, c>>])
    \/ \E e \in EntrySeqs : Call([op |-> "sort_by", args |-> e])
    \/ \E v \in RawPool : Call([op |-> "get_real_version", args |-> v])
    \/ \E v \in StablePool : Call([op |-> "is_stable_version", args |-> v])
    \/ \E e \in EntrySeqs, f \in Filters, stable \in BOOLEAN :
           \/ Call([op |-> "list", args |-> <<e, f, stable>>])
           \/ Call([op |-> "list_remote", args |-> <<Released(e), f, stable>>])

NextVersions ==
    \E p \in Procs :
        \/ CmpVersions(p)
        \/ SortBy(p)
        \/ GetRealVersion(p)
        \/ IsStableVersion(p)
        \/ ListReleases(p)
        \/ ListRemote(p)

SpecVersions == InitVersions /\ [][NextVersions]_vars

(***************************************************************************)
(* Specification: installs, any of which can be killed before its rename   *)
(***************************************************************************)
BeforeRenameLabels ==
    {"i_catalog", "i_installed", "i_download", "i_open", "i_unpack", "i_rename"}

\* the process is killed: it stops where it is and cleans nothing up
Kill(p) ==
    /\ pc[p] \in BeforeRenameLabels
    /\ Finish(p, "killed")
    /\ UNCHANGED <<fsVars, cmd, pre, faults, activated>>

InitKill ==
    /\ EmptyStore(CatalogFile)
    /\ pc = [p \in Procs |-> IF p = 1 THEN "idle" ELSE "off"]
    /\ cmd = [p \in Procs |-> NoCmd]
    /\ loc = [p \in Procs |-> Loc0]
    /\ result = [p \in Procs |-> "none"]
    /\ pre = [p \in Procs |-> <<>>]
    /\ faults = 0
    /\ activated = FALSE

NextKill ==
    \E p \in Procs :
        \/ InstallBegin(p)
        \/ InstallReadCatalog(p)
        \/ InstallCheckInstalled(p)
        \/ InstallDownload(p)
        \/ InstallOpenArchive(p)
        \/ InstallUnpack(p)
        \/ InstallRename(p)
        \/ InstallCleanup(p)
        \/ ActivateStep(p)
        \/ Kill(p)
        \/ Exit(p)

SpecKill == InitKill /\ [][NextKill]_vars

(***************************************************************************)
(* Specification: alias commands over an alias/ directory that holds an    *)
(* entry which is not a symbolic link                                      *)
(***************************************************************************)
InitStray ==
    \E active \in Catalog \cup {None}, stray \in AliasNames \ {"default"} :
        /\ InstalledStore(active)!1
        /\ activeFile = (IF active = None THEN NoFile ELSE active)
        /\ aliasDir = [a \in AliasNames |->
                          IF a = stray THEN RegularFile
                          ELSE IF a = "default" /\ active # None THEN active
                          ELSE NoFile]
        /\ cacheDir = (IF active = None THEN {} ELSE {active})
        /\ packageDir = (IF active = None THEN {} ELSE {active})
        /\ envFile = (IF active = None THEN NoFile ELSE EnvContent(active))
        /\ archiveDir = {}
        /\ releaseJson = CatalogFile
        /\ releasesJson = NoFile
        /\ pc = [p \in Procs |-> IF p = 1 THEN "idle" ELSE "off"]
        /\ cmd = [p \in Procs |-> NoCmd]
        /\ loc = [p \in Procs |-> Loc0]
        /\ result = [p \in Procs |-> "none"]
        /\ pre = [p \in Procs |-> <<>>]
        /\ faults = 0
        /\ activated = FALSE

NextStray ==
    \E p \in Procs :
        \/ AliasBegin(p)
        \/ AliasCheckReserved(p)
        \/ AliasList(p)
        \/ AliasCheckExists(p)
        \/ AliasCheckInstalled(p)
        \/ RemoveAliasBegin(p)
        \/ RemoveAliasCheckReserved(p)
        \/ RemoveAliasCheckExists(p)
        \/ SymlinkExists(p)
        \/ SymlinkRemove(p)
        \/ SymlinkCreate(p)
        \/ Exit(p)

SpecStray == InitStray /\ [][NextStray]_vars

(***************************************************************************)
(* Specification: remove v and use v at the same time                      *)
(***************************************************************************)
\* both catalog versions are installed, v is not the active one
InitRemoveUseRace ==
    \E v \in Catalog : \E active \in (Catalog \ {v}) \cup {None} :
        /\ InstalledStore(active)
        /\ Running([version |-> v, op |-> "remove"], "r_installed",
                   [version |-> v, op |-> "use"], "u_installed")

NextRemoveUseRace ==
    \E p \in Procs :
        \/ RemoveCheckInstalled(p)
        \/ RemoveCheckActive(p)
        \/ RemoveDirAll(p)
        \/ UseCheckInstalled(p)
        \/ UseCheckActive(p)
        \/ ActivateStep(p)

SpecRemoveUseRace == InitRemoveUseRace /\ [][NextRemoveUseRace]_vars

(***************************************************************************)
(* Specification: use v, and use v again once the first has ended          *)
(***************************************************************************)
\* the shell starts the second command when the first has exited
Rerun(p) ==
    /\ pc[p] = "waiting"
    /\ \A q \in Procs \ {p} : pc[q] = "done"
    /\ pc' = [pc EXCEPT ![p] = "u_installed"]
    /\ pre' = [pre EXCEPT ![p] = FS]
    /\ UNCHANGED <<fsVars, cmd, loc, result, faults, activated>>

InitRetry ==
    \E v \in Catalog : \E active \in (Catalog \ {v}) \cup {None} :
        /\ InstalledStore(active)
        /\ Running([version |-> v, op |-> "use"], "u_installed",
                   [version |-> v, op |-> "use"], "waiting")

NextRetry ==
    \E p \in Procs :
        \/ UseCheckInstalled(p)
        \/ UseCheckActive(p)
        \/ ActivateStep(p)
        \/ Rerun(p)

SpecRetry == InitRetry /\ [][NextRetry]_vars

(***************************************************************************)
(* Specification: update and install, one command at a time                *)
(***************************************************************************)
NextCatalog ==
    \E p \in Procs :
        \/ UpdateBegin(p)
        \/ UpdateWriteCache(p)
        \/ InstallBegin(p)
        \/ InstallReadCatalog(p)
        \/ InstallCheckInstalled(p)
        \/ InstallDownload(p)
        \/ InstallOpenArchive(p)
        \/ InstallUnpack(p)
        \/ InstallRename(p)
        \/ InstallCleanup(p)
        \/ ActivateStep(p)
        \/ Exit(p)

SpecCatalog == Init /\ [][NextCatalog]_vars

\* the versions list-remote prints without a filter: those of the records in
\* cache/releases.json
ShownByListRemote(fs) ==
    IF fs.releasesJson = NoFile THEN {}
    ELSE {fs.releasesJson[i] : i \in 1..Len(fs.releasesJson)}

(***************************************************************************)
(* Specification: two concurrent installs of different versions            *)
(***************************************************************************)
InitInstallPair ==
    \E v \in Catalog : \E w \in Catalog \ {v} :
        /\ EmptyStore(CatalogFile)
        /\ Running([version |-> v, op |-> "install", use |-> FALSE], "i_catalog",
                   [version |-> w, op |-> "install", use |-> FALSE], "i_catalog")

SpecInstallPair == InitInstallPair /\ [][NextInstallRace]_vars

(***************************************************************************)
(* Properties                                                              *)
(***************************************************************************)
\* no command is in the middle of its steps
Quiescent == \A p \in Procs : pc[p] \in {"idle", "done", "off"}

\* the real version a finished or running command was given
RealOf(p) == get_real_version(cmd[p].version)

Completed(p, op) == pc[p] = "done" /\ cmd[p].op = op

IsLink(name) == aliasDir[name] # NoFile /\ aliasDir[name] # RegularFile

InstalledIn(fs) == {d \in DirNames : fs.versionDir[d] # NoDir}

\* the version an alias command resolves its target argument to
AliasTarget(p) == get_real_version(UnwrapOrDefault(cmd[p].target))

\* p runs activate_version (from use, or from install --use) and is past the
\* write of the marker
Activating(p) == cmd[p].op \in {"use", "install"}

AfterMarkerLabels ==
    {"s_exists", "s_remove", "s_symlink", "a_cache", "a_package", "e_open",
     "e_write"}

AfterMarkerFailures ==
    {"symlink_remove_failed", "symlink_failed", "cache_dir_failed",
     "package_dir_failed", "env_failed"}

\* the command of p has ended with success and ran activate_version: install
\* with --use, or use of a version the marker did not already name
ActivatedBy(p) ==
    /\ pc[p] = "done" /\ result[p] = "ok"
    /\ \/ cmd[p].op = "install" /\ cmd[p].use
       \/ cmd[p].op = "use" /\ pre[p].activeFile # RealOf(p)

\* go.env as it must be for version v: the four keys and their paths
DescriptorFor(v) ==
    << <<"GOROOT", <<"version", v>>>>,
       <<"GOCACHE", <<"cache", v>>>>,
       <<"GOPATH", <<"package", v>>>>,
       <<"GOENV", <<"environment", <<"g", "o", ".", "e", "n", "v">>>>>> >>

\* a name the alias command treats as an alias name
FreeName(name) == name # "default" /\ ~IsListKeyword(name)

\* C1: once an activation has succeeded, between commands the `default`
\* alias exists and targets the version the marker records (stated here for
\* runs in which no I/O call ever failed).
C1_DefaultMirrorsMarker ==
    (Quiescent /\ activated /\ faults = 0) =>
        (IsLink("default") /\ aliasDir["default"] = activeFile)

\* C2: a successful remove(v) of an installed, non-active v deletes v's
\* directory and nothing else: the other directories, every alias and the
\* marker are as before the command (no I/O call failed).
C2_RemoveDeletesOnlyItsDirectory ==
    \A p \in Procs :
        (Completed(p, "remove") /\ result[p] = "ok" /\ faults = 0) =>
            /\ versionDir = [pre[p].versionDir EXCEPT ![RealOf(p)] = NoDir]
            /\ aliasDir = pre[p].aliasDir
            /\ activeFile = pre[p].activeFile

\* C3: between commands every alias targets an installed version (no I/O
\* call failed).
C3_AliasTargetsInstalled ==
    (Quiescent /\ faults = 0) =>
        \A a \in AliasNames : IsLink(a) => versionDir[aliasDir[a]] # NoDir

\* C4: remove(v) of the active version v (a version of the catalog, or any
\* directory of the version store the marker names) ends with the
\* 'currently active' error and the whole store is as before the command.
C4_RemoveActiveRejected ==
    \A p \in Procs :
        (/\ Completed(p, "remove")
         /\ (RealOf(p) \in Catalog \/ pre[p].versionDir[RealOf(p)] # NoDir)
         /\ pre[p].activeFile = RealOf(p)) =>
            (result[p] = "currently_active" /\ FS = pre[p])

C4_Witness ==
    \E p \in Procs :
        /\ Completed(p, "remove")
        /\ RealOf(p) \in Catalog
        /\ pre[p].activeFile = RealOf(p)
        /\ result[p] = "currently_active"
        /\ pre[p].aliasDir["default"] = RealOf(p)
        /\ pre[p].aliasDir["foo"] # NoFile
        /\ Cardinality(InstalledIn(pre[p])) > 1

\* C5: install(v) of an installed v ends with the already-installed error
\* and the whole store (version directories, archives, everything) is as
\* before the command.
C5_InstallTwiceRejected ==
    \A p \in Procs :
        (/\ Completed(p, "install")
         /\ RealOf(p) \in Catalog
         /\ pre[p].versionDir[RealOf(p)] # NoDir) =>
            (result[p] = "already_installed" /\ FS = pre[p])

C5_Witness ==
    \E p \in Procs :
        /\ Completed(p, "install")
        /\ RealOf(p) \in Catalog
        /\ pre[p].versionDir[RealOf(p)] # NoDir
        /\ \A f \in Files : pre[p].versionDir[RealOf(p)][f] = <<RealOf(p), p>>
        /\ result[p] = "already_installed"
        /\ InstalledIn(FS) = {RealOf(p)}

\* C6: when unpacking fails during install(v), list_installed_versions
\* returns afterwards what it returned before the command.
C6_FailedUnpackLeavesNoVersion ==
    \A p \in Procs :
        (Completed(p, "install") /\ result[p] = "extract_failed") =>
            list_installed_versions = InstalledIn(pre[p])

\* C7: while `use w` replaces the active version v, every value a
\* concurrent reader gets from get_active_version is v or w (no I/O call
\* failed).
C7_ReaderSeesOldOrNew ==
    \A p \in Procs :
        (cmd[p].op = "list" /\ loc[p].seen # NotRead /\ faults = 0) =>
            loc[p].seen \in Catalog

\* C8: of two concurrent install(v) that both passed the existence check, at
\* most one succeeds, the other ends with the already-installed error, and
\* v's directory holds the files of one process only (no I/O call failed).
C8_InstallRaceOneWinner ==
    (/\ \A p \in Procs : Completed(p, "install") /\ loc[p].checked
     /\ faults = 0) =>
        /\ Cardinality({p \in Procs : result[p] = "ok"}) <= 1
        /\ \A p \in Procs : result[p] # "ok" => result[p] = "already_installed"
        /\ \A v \in Catalog : versionDir[v] # NoDir =>
               \E p \in Procs : \A f \in Files : versionDir[v][f] = <<v, p>>

\* C9: when two concurrent activations of different versions have both
\* succeeded, the marker and the `default` alias name the same version.
C9_ActivateRaceAgree ==
    (\A p \in Procs : Completed(p, "use") /\ result[p] = "ok") =>
        (IsLink("default") /\ aliasDir["default"] = activeFile)

\* C10: use(v) of the version v the marker records succeeds, changes nothing
\* in the store, and leaves the marker and the `default` alias at v (no I/O
\* call failed).
C10_UseActiveIsNoOp ==
    \A p \in Procs :
        (/\ Completed(p, "use")
         /\ RealOf(p) \in Catalog
         /\ pre[p].activeFile = RealOf(p)
         /\ faults = 0) =>
            /\ result[p] = "ok"
            /\ FS = pre[p]
            /\ activeFile = RealOf(p)
            /\ IsLink("default") /\ aliasDir["default"] = RealOf(p)

\* C11: use(v) of a version v that is not installed ends with the
\* not-installed error and the whole store (marker, aliases, go.env, every
\* directory) is as before the command.
C11_UseNotInstalledRejected ==
    \A p \in Procs :
        (Completed(p, "use") /\ pre[p].versionDir[RealOf(p)] = NoDir) =>
            (result[p] = "not_installed" /\ FS = pre[p])

C11_Witness ==
    \E p \in Procs :
        /\ Completed(p, "use")
        /\ RealOf(p) = V1
        /\ pre[p].versionDir[V1] = NoDir
        /\ pre[p].versionDir[V2] # NoDir
        /\ pre[p].activeFile = V2
        /\ pre[p].aliasDir["default"] = V2
        /\ pre[p].envFile = EnvContent(V2)
        /\ result[p] = "not_installed"

\* C12: alias(name, target) for a name that is already an entry of the alias
\* directory (and is neither `default` nor a keyword) ends with the
\* alias-exists error and changes nothing; and no alias command, however it
\* ends, changes the target of an alias that existed when it started.
C12_AliasExistsRejected ==
    \A p \in Procs :
        Completed(p, "alias") =>
            /\ (/\ cmd[p].alias # "default"
                /\ ~IsListKeyword(cmd[p].alias)
                /\ pre[p].aliasDir[cmd[p].alias] # NoFile) =>
                    (result[p] = "alias_exists" /\ FS = pre[p])
            /\ \A a \in AliasNames :
                   pre[p].aliasDir[a] # NoFile => aliasDir[a] = pre[p].aliasDir[a]

C12_Witness ==
    \E p \in Procs :
        /\ Completed(p, "alias")
        /\ cmd[p].alias = "foo"
        /\ pre[p].aliasDir["foo"] = V1
        /\ cmd[p].target = V2
        /\ pre[p].versionDir[V2] # NoDir
        /\ result[p] = "alias_exists"
        /\ aliasDir["foo"] = V1

\* C13: alias(name, target) whose normalized target has no directory in the
\* version store changes nothing in the store (no alias is created, none is
\* removed), and for a name that is free and not yet an alias it ends with
\* the not-installed error.
C13_AliasTargetNotInstalled ==
    \A p \in Procs :
        (Completed(p, "alias") /\ pre[p].versionDir[AliasTarget(p)] = NoDir) =>
            /\ FS = pre[p]
            /\ (FreeName(cmd[p].alias) /\ pre[p].aliasDir[cmd[p].alias] = NoFile)
                   => result[p] = "not_installed"

C13_Witness ==
    \E p \in Procs :
        /\ Completed(p, "alias")
        /\ cmd[p].alias = "foo"
        /\ cmd[p].target = <<"1", ".", "9">>
        /\ pre[p].versionDir[V1] = NoDir
        /\ pre[p].versionDir[V2] # NoDir
        /\ pre[p].aliasDir["foo"] = NoFile
        /\ pre[p].aliasDir["default"] = V2
        /\ result[p] = "not_installed"

\* C14: alias and remove-alias given the name `default` end with the
\* reserved-name error and change nothing; alias given `list` or `ls` changes
\* nothing; and the alias directory never has an entry named `list` or `ls`.
C14_ReservedNamesUntouched ==
    /\ \A p \in Procs :
           (/\ Completed(p, "alias") \/ Completed(p, "remove_alias")
            /\ cmd[p].alias = "default") =>
               (result[p] = "reserved" /\ FS = pre[p])
    /\ \A p \in Procs :
           (Completed(p, "alias") /\ cmd[p].alias \in {"list", "ls"}) =>
               FS = pre[p]
    /\ aliasDir["list"] = NoFile
    /\ aliasDir["ls"] = NoFile

C14_Witness ==
    \E p \in Procs :
        /\ Completed(p, "alias")
        /\ cmd[p].alias = "list"
        /\ cmd[p].target = V1
        /\ versionDir[V1] # NoDir
        /\ aliasDir["default"] = V2
        /\ aliasDir["foo"] = V1
        /\ result[p] = "ok"

\* C15: alias(name, target) for a free name that is not yet an alias and a
\* target that is installed succeeds, and the store afterwards is the store
\* before with alias/name -> target added: the other aliases, the version
\* directories and the marker are unchanged. The one other outcome is a
\* failure of the symlink call itself, which leaves the store as it was.
C15_AliasCreatesLink ==
    \A p \in Procs :
        (/\ Completed(p, "alias")
         /\ FreeName(cmd[p].alias)
         /\ pre[p].aliasDir[cmd[p].alias] = NoFile
         /\ pre[p].versionDir[AliasTarget(p)] # NoDir) =>
            \/ /\ result[p] = "ok"
               /\ FS = [pre[p] EXCEPT
                           !.aliasDir[cmd[p].alias] = AliasTarget(p)]
            \/ /\ result[p] = "symlink_failed"
               /\ faults > 0
               /\ FS = pre[p]

C15_Witness ==
    \E p \in Procs :
        /\ Completed(p, "alias")
        /\ cmd[p].alias = "foo"
        /\ cmd[p].target = <<"1", ".", "9">>
        /\ pre[p].aliasDir["foo"] = NoFile
        /\ pre[p].aliasDir["default"] = V2
        /\ pre[p].activeFile = V2
        /\ result[p] = "ok"
        /\ aliasDir["foo"] = V1
        /\ faults = 0

\* C16: remove-alias(name) for a name other than `default` that is not an
\* entry of the alias directory reports success and the whole store is as
\* before the command.
C16_RemoveMissingAliasIsNoOp ==
    \A p \in Procs :
        (/\ Completed(p, "remove_alias")
         /\ cmd[p].alias # "default"
         /\ pre[p].aliasDir[cmd[p].alias] = NoFile) =>
            (result[p] = "ok" /\ FS = pre[p])

C16_Witness ==
    \E p \in Procs :
        /\ Completed(p, "remove_alias")
        /\ cmd[p].alias = "foo"
        /\ pre[p].aliasDir["foo"] = NoFile
        /\ pre[p].aliasDir["default"] = V1
        /\ pre[p].versionDir[V1] # NoDir
        /\ result[p] = "ok"

\* C17: after remove-alias(name) has reported success for a name other than
\* `default`, list_aliases does not list name (no I/O call failed).
C17_RemovedAliasNotListed ==
    \A p \in Procs :
        (/\ Completed(p, "remove_alias")
         /\ cmd[p].alias # "default"
         /\ result[p] = "ok"
         /\ faults = 0) =>
            cmd[p].alias \notin list_aliases

\* C18: alias(name) without a target, for a free name that is not yet an
\* alias, succeeds and binds name to the active version, the one the marker
\* and the `default` alias name (no I/O call failed).
C18_AliasWithoutTargetBindsActive ==
    \A p \in Procs :
        (/\ Completed(p, "alias")
         /\ cmd[p].target = None
         /\ FreeName(cmd[p].alias)
         /\ pre[p].aliasDir[cmd[p].alias] = NoFile
         /\ pre[p].activeFile \in Catalog
         /\ pre[p].versionDir[pre[p].activeFile] # NoDir
         /\ pre[p].aliasDir["default"] = pre[p].activeFile
         /\ faults = 0) =>
            (result[p] = "ok" /\ aliasDir[cmd[p].alias] = pre[p].activeFile)

\* C19: at every step of activate(v) after the marker write the marker reads
\* v, and when the activation fails at one of these steps (replacing the
\* `default` alias, creating the cache or package directory, writing go.env)
\* the command has ended in error with the marker still reading v.
C19_MarkerCommittedFirst ==
    \A p \in Procs :
        /\ (Activating(p) /\ pc[p] \in AfterMarkerLabels) =>
               activeFile = loc[p].real
        /\ (Activating(p) /\ pc[p] = "done"
                /\ result[p] \in AfterMarkerFailures) =>
               activeFile = loc[p].real

C19_Witness ==
    \E p \in Procs :
        /\ Completed(p, "use")
        /\ result[p] \in {"symlink_failed", "env_failed"}
        /\ pre[p].activeFile = V1
        /\ loc[p].real = V2
        /\ activeFile = V2

C21_SuffixedSortsFirst ==
    \A p \in Procs :
        /\ Completed(p, "cmp_versions") =>
               \A i \in 1..3 : \A j \in 1..3 :
                   (/\ cmd[p].args[j] \in PlainVersions
                    /\ \E s \in Suffixes \ {<<>>} :
                           cmd[p].args[i] = cmd[p].args[j] \o s)
                       => result[p][<<i, j>>] = Less
        /\ (Completed(p, "sort_by")
                /\ cmd[p].args = <<Ver(<<1, 24>>, RC1), Ver(<<1, 24, 0>>, <<>>),
                                   Ver(<<1, 23, 0>>, <<>>)>>)
               => result[p] = <<Ver(<<1, 23, 0>>, <<>>), Ver(<<1, 24>>, RC1),
                                Ver(<<1, 24, 0>>, <<>>)>>

C21_Witness ==
    /\ Completed(1, "cmp_versions")
    /\ cmd[1].args[1] = Ver(<<9, 10>>, RC1)
    /\ cmd[1].args[2] = Ver(<<9, 10>>, <<>>)
    /\ result[1][<<1, 2>>] = Less

\* C22: cmp_versions orders all strings, unparseable ones included:
\* compare(a, b) is the reverse of compare(b, a), compare(a, a) is equal,
\* and less and equal are both transitive.
C22_CompareIsWeakOrder ==
    \A p \in Procs :
        Completed(p, "cmp_versions") =>
            LET r == result[p]
                Reverse(ord) ==
                    IF ord = Less THEN Greater
                    ELSE IF ord = Greater THEN Less ELSE Equal
            IN  /\ \A i \in 1..3 : r[<<i, i>>] = Equal
                /\ \A i \in 1..3 : \A j \in 1..3 :
                       r[<<i, j>>] = Reverse(r[<<j, i>>])
                /\ \A i \in 1..3 : \A j \in 1..3 : \A k \in 1..3 :
                       \A ord \in {Less, Equal} :
                           (r[<<i, j>>] = ord /\ r[<<j, k>>] = ord)
                               => r[<<i, k>>] = ord

C22_Witness ==
    /\ Completed(1, "cmp_versions")
    /\ cmd[1].args = <<GO, Ver(<<9>>, BETA2), Ver(<<9>>, RC1)>>
    /\ result[1][<<1, 2>>] = Less
    /\ result[1][<<2, 3>>] = Less
    /\ result[1][<<1, 3>>] = Less
    /\ result[1][<<3, 1>>] = Greater

\* C25: get_real_version is idempotent, and a string without the prefix
\* normalizes to the same version as that string with the prefix.
C25_NormalizeIdempotent ==
    \A p \in Procs :
        Completed(p, "get_real_version") =>
            /\ get_real_version(result[p]) = result[p]
            /\ ~StartsWithGo(cmd[p].args)
                   => result[p] = get_real_version(GO \o cmd[p].args)

C25_Witness ==
    /\ Completed(1, "get_real_version")
    /\ cmd[1].args = <<"9", ".", "1", "0">>
    /\ result[1] = Ver(<<9, 10>>, <<>>)
\* C26: is_stable_version answers true exactly for the versions whose
\* suffix, the text after the numeric dotted base, is empty and holds none
\* of rc, beta, alpha; go1.24.0 is stable, go1.24rc1 and go1.24beta2 are not.
C26_StableIffNoSuffix ==
    \A p \in Procs :
        Completed(p, "is_stable_version") =>
            LET suffix == parse_version_parts(cmd[p].args)[2]
            IN  /\ result[p] =
                       (/\ suffix = <<>>
                        /\ ~Contains(suffix, <<"r", "c">>)
                        /\ ~Contains(suffix, <<"b", "e", "t", "a">>)
                        /\ ~Contains(suffix, <<"a", "l", "p", "h", "a">>))
                /\ cmd[p].args = Ver(<<1, 24, 0>>, <<>>) => result[p]
                /\ cmd[p].args = Ver(<<1, 24>>, RC1) => ~result[p]
                /\ cmd[p].args = Ver(<<1, 24>>, BETA2) => ~result[p]

\* C23: list prints exactly the installed names that match the normalized
\* filter (by prefix when it ends with *, exactly otherwise, all without a
\* filter) and, with --stable, are stable, in ascending cmp_versions order;
\* 1.21.* over go1.21.0, go1.21.5, go1.22.0 prints go1.21.0, go1.21.5.
C23_ListSelectsAndSorts ==
    \A p \in Procs :
        Completed(p, "list") =>
            LET entries == cmd[p].args[1]
                filter == cmd[p].args[2]
                stable_only == cmd[p].args[3]
                out == result[p]
                normalized == get_real_version(filter)
                Matches(r) ==
                    \/ filter = None
                    \/ /\ filter # None
                       /\ IF normalized[Len(normalized)] = "*"
                          THEN StartsWith(r, SubSeq(normalized, 1,
                                                    Len(normalized) - 1))
                          ELSE r = normalized
                Stable(r) == parse_version_parts(r)[2] = <<>>
                wanted == {entries[i] : i \in
                              {k \in 1..Len(entries) :
                                  /\ Matches(entries[k])
                                  /\ stable_only => Stable(entries[k])}}
            IN  /\ {out[i] : i \in 1..Len(out)} = wanted
                /\ Len(out) = Cardinality(wanted)
                /\ \A i \in 1..Len(out) : \A j \in i..Len(out) :
                       cmp_versions(out[i], out[j]) # Greater
                /\ (/\ {entries[i] : i \in 1..Len(entries)} =
                           {Ver(<<1, 21, 0>>, <<>>), Ver(<<1, 21, 5>>, <<>>),
                            Ver(<<1, 22, 0>>, <<>>)}
                     /\ filter = <<"1", ".", "2", "1", ".", "*">>
                     /\ ~stable_only)
                       => out = <<Ver(<<1, 21, 0>>, <<>>),
                                  Ver(<<1, 21, 5>>, <<>>)>>

C27_KilledInstallLeavesNoVersion ==
    faults = 0 =>
        /\ Quiescent => list_installed_versions \subseteq Catalog
        /\ \A p \in Procs :
               (/\ Completed(p, "install")
                /\ RealOf(p) \in Catalog
                /\ result[p] # "killed")
                   => \/ result[p] = "already_installed"
                      \/ /\ result[p] = "ok"
                         /\ \A f \in Files :
                                versionDir[RealOf(p)][f] = <<RealOf(p), p>>
\* C28: when install has renamed the unpacked release and the removal of
\* the downloaded archive then fails, the command ends with the cleanup
\* failure and the version store is left as the rename made it: v is
\* installed.
C28_CleanupFailureKeepsVersion ==
    [][\A p \in Procs :
          (/\ pc[p] = "i_cleanup"
           /\ pc'[p] # "i_cleanup"
           /\ archiveDir' = archiveDir)
              => /\ pc'[p] = "done"
                 /\ result'[p] = "cleanup_failed"
                 /\ versionDir'[loc[p].real] = versionDir[loc[p].real]
                 /\ versionDir'[loc[p].real] # NoDir]_vars

C28_Witness ==
    /\ Completed(1, "install")
    /\ result[1] = "cleanup_failed"
    /\ faults = 1
    /\ RealOf(1) \in archiveDir
    /\ RealOf(1) \in list_installed_versions
    /\ RealOf(1) \notin InstalledIn(pre[1])
\* C29: with an entry in alias/ that is not a symbolic link, list_aliases
\* leaves that entry out, `alias list` and `alias ls` succeed, and creating
\* an alias of that name is not refused as already existing.
C29_StrayEntryIgnored ==
    \A p \in Procs :
        (Completed(p, "alias") /\ cmd[p].alias # "default") =>
            /\ \A a \in AliasNames :
                   pre[p].aliasDir[a] = RegularFile => a \notin list_aliases
            /\ cmd[p].alias \in {"list", "ls"} => result[p] = "ok"
            /\ pre[p].aliasDir[cmd[p].alias] = RegularFile
                   => result[p] # "alias_exists"
\* C30: get_active_version gives no version when the marker is absent or
\* its content is not a version with the go prefix and a numeric base; a
\* version it does give is the marker's content.
C30_ActiveOnlyFromValidMarker ==
    /\ activeFile = NoFile => get_active_version = None
    /\ get_active_version # None =>
           /\ get_active_version = activeFile
           /\ StartsWithGo(activeFile)
           /\ parse_version_parts(activeFile)[1] # <<>>
\* C31: between commands run one at a time, a version that
\* get_active_version returns is an installed version.
C31_ActiveIsInstalled ==
    (Quiescent /\ get_active_version # None) =>
        get_active_version \in list_installed_versions
\* C32: when remove v and use v have run at the same time and both have
\* ended (no I/O call failed), neither the marker nor the `default` alias
\* names a version whose directory is deleted.
C32_RemoveUseRaceNoDangling ==
    ((\A p \in Procs : pc[p] = "done") /\ faults = 0) =>
        \A v \in Catalog :
            versionDir[v] = NoDir =>
                activeFile # v /\ aliasDir["default"] # v
\* C33: when use v has failed after writing the marker and before the
\* `default` alias was created again, a second use v that runs to its end
\* leaves the `default` alias and go.env at v.
C33_RerunRestoresAgreement ==
    (/\ pc[1] = "done"
     /\ result[1] \in {"symlink_remove_failed", "symlink_failed"}
     /\ Completed(2, "use")) =>
        /\ IsLink("default") /\ aliasDir["default"] = RealOf(2)
        /\ envFile = DescriptorFor(RealOf(2))
\* C34: once update has written the release catalog, install of a version
\* that list-remote shows and that is not installed finds the version in the
\* catalog.
C34_InstallFindsListedVersion ==
    \A p \in Procs :
        (/\ Completed(p, "install")
         /\ RealOf(p) \in ShownByListRemote(pre[p])
         /\ RealOf(p) \notin InstalledIn(pre[p])) =>
            result[p] \notin {"catalog_unreadable", "not_in_catalog"}
\* C35: of two concurrent installs of different uninstalled versions, each
\* one that reports success leaves its directory with exactly the files of
\* its own archive, and neither fails because of the other (no I/O call
\* failed).
C35_InstallPairIndependent ==
    ((\A p \in Procs : Completed(p, "install")) /\ faults = 0) =>
        \A p \in Procs :
            /\ result[p] = "ok"
            /\ versionDir[RealOf(p)] # NoDir
            /\ \A f \in Files : versionDir[RealOf(p)][f] = <<RealOf(p), p>>
\* C36: whenever install with --use has ended, in success or in error, and
\* it is this command that installed v, v is the active version: the marker,
\* the `default` alias and go.env all denote v.
C36_InstalledWithUseIsActive ==
    \A p \in Procs :
        (/\ Completed(p, "install")
         /\ cmd[p].use
         /\ RealOf(p) \notin InstalledIn(pre[p])
         /\ RealOf(p) \in list_installed_versions) =>
            /\ activeFile = RealOf(p)
            /\ IsLink("default") /\ aliasDir["default"] = RealOf(p)
            /\ envFile = DescriptorFor(RealOf(p))
\* C37: a successful activation of v leaves every alias other than `default`
\* with its target, and use(v), which does nothing else, leaves the installed
\* versions and their files, the archives, the release catalogs and the
\* build-cache and package directories of every other version as they were.
C37_ActivationFrame ==
    \A p \in Procs :
        /\ ActivatedBy(p) =>
               \A a \in AliasNames \ {"default"} :
                   aliasDir[a] = pre[p].aliasDir[a]
        /\ (ActivatedBy(p) /\ cmd[p].op = "use") =>
               /\ list_installed_versions = InstalledIn(pre[p])
               /\ versionDir = pre[p].versionDir
               /\ cacheDir \ {RealOf(p)} = pre[p].cacheDir \ {RealOf(p)}
               /\ packageDir \ {RealOf(p)} = pre[p].packageDir \ {RealOf(p)}
               /\ archiveDir = pre[p].archiveDir
               /\ releaseJson = pre[p].releaseJson
               /\ releasesJson = pre[p].releasesJson

C37_Witness ==
    \E p \in Procs :
        /\ ActivatedBy(p)
        /\ cmd[p].op = "use"
        /\ RealOf(p) = V2
        /\ pre[p].activeFile = V1
        /\ pre[p].aliasDir["default"] = V1
        /\ pre[p].aliasDir["foo"] = V1
        /\ V2 \notin pre[p].cacheDir
        /\ activeFile = V2
        /\ aliasDir["default"] = V2
        /\ aliasDir["foo"] = V1
        /\ V2 \in cacheDir /\ V1 \in cacheDir
        /\ InstalledIn(FS) = {V1, V2}
====
